---- MODULE Spec2Model ----
(***************************************************************************)
(* Model of the AssimpImport scene importer (src/src/AssimpImport.ts) and  *)
(* of AssimpSceneAnimation (same file, lines 243-266).                     *)
(*                                                                         *)
(* JavaScript values are modelled as follows.                              *)
(*   - an optional field (one that may be undefined) is a sequence of      *)
(*     length 0 (undefined) or 1 (the value);                              *)
(*   - a Map is the sequence of its [key, value] entries in insertion      *)
(*     order;                                                              *)
(*   - an array index of the source (0-based) is kept as the source has    *)
(*     it; the element at source index i is element i + 1 of the sequence; *)
(*   - numbers are integers; a gl-matrix vector, quaternion or matrix is   *)
(*     a Float32Array, so each component stored into one is rounded to     *)
(*     single precision (Float32);                                         *)
(*   - a thrown error is a record [kind |-> "throw", ...].                 *)
(***************************************************************************)
EXTENDS Integers, Sequences, FiniteSets, TLC

VARIABLES
    assimpJs,   \* this.assimpJs: undefined, or the loaded parser (its answer to ConvertFileList for the current files)
    files,      \* this.files: Map<string, ArrayBuffer>
    calls,      \* history: every pushFile(path, data) call since construction, in order
    fileList,   \* the FileList the last loadScene() submitted to the parser (none if it submitted nothing)
    result,     \* the parser's result object in the last loadScene() (none if the parser was not reached)
    returned,   \* what the last loadScene() returned or threw
    lookup      \* the last getNodeAnimation(name) query on an animation of the returned scene

vars == <<assimpJs, files, calls, fileList, result, returned, lookup>>

----------------------------------------------------------------------------
(* Optional values and small helpers *)

None == <<>>
Some(x) == <<x>>
IsSet(o) == Len(o) > 0

MinOf(a, b) == IF a < b THEN a ELSE b

\* All sequences over S of length 0..n
SeqUpTo(S, n) == UNION {[1..k -> S] : k \in 0..n}

----------------------------------------------------------------------------
(* gl-matrix storage: ARRAY_TYPE is Float32Array, so fromValues rounds      *)
(* every component to the nearest single-precision value (ties to even).   *)

RECURSIVE Ulp(_, _)
Ulp(n, u) == IF n < (2 ^ 24) * u THEN u ELSE Ulp(n, 2 * u)

Float32Nat(n) ==
    LET u == Ulp(n, 1)
        q == n \div u
        r == n % u
    IN  IF 2 * r < u THEN q * u
        ELSE IF 2 * r > u THEN (q + 1) * u
        ELSE IF q % 2 = 0 THEN q * u
        ELSE (q + 1) * u

Float32(x) == IF x < 0 THEN 0 - Float32Nat(0 - x) ELSE Float32Nat(x)

vec3fromValues(x, y, z) == <<Float32(x), Float32(y), Float32(z)>>

quatFromValues(x, y, z, w) == <<Float32(x), Float32(y), Float32(z), Float32(w)>>

\* mat4.fromValues(m00, m01, ..., m33): the 16 arguments in order
mat4fromValues(m) == [i \in 1..16 |-> Float32(m[i])]

\* mat3.fromValues(m00, ..., m22): the 9 arguments in order
mat3fromValues(m) == [i \in 1..9 |-> Float32(m[i])]

\* vec3.cross(out, a, b)
vec3cross(a, b) ==
    vec3fromValues(a[2] * b[3] - a[3] * b[2],
                   a[3] * b[1] - a[1] * b[3],
                   a[1] * b[2] - a[2] * b[1])

----------------------------------------------------------------------------
(* Map *)

MapHas(m, k) == \E i \in 1..Len(m) : m[i].key = k

\* Map.prototype.set: an existing key keeps its place and gets the new value
MapSet(m, k, v) ==
    IF MapHas(m, k)
    THEN [i \in 1..Len(m) |-> IF m[i].key = k THEN [key |-> k, value |-> v] ELSE m[i]]
    ELSE Append(m, [key |-> k, value |-> v])

\* Map.prototype.get: the value, or undefined
MapGet(m, k) ==
    IF MapHas(m, k)
    THEN Some(m[CHOOSE i \in 1..Len(m) : m[i].key = k].value)
    ELSE None

----------------------------------------------------------------------------
(* Thrown errors *)

\* new Error(`Assimp failed to convert files! Error code: ${result.GetErrorCode()}`)
ConversionError(code) ==
    [kind |-> "throw", message |-> "Assimp failed to convert files! Error code: ", errorCode |-> code]

\* new Error(`Unknown light type: ${type}`)
UnknownLightTypeError(type) ==
    [kind |-> "throw", message |-> "Unknown light type: ", type |-> type]

\* new this.assimpJs.FileList() with this.assimpJs undefined
TypeError == [kind |-> "throw", message |-> "TypeError"]

----------------------------------------------------------------------------
(* Animations *)

loadPositionKeys(channel) ==
    IF IsSet(channel.positionkeys)
    THEN LET keys == channel.positionkeys[1]
         IN  [i \in 1..Len(keys) |->
                [time |-> keys[i][1],
                 value |-> vec3fromValues(keys[i][2][1], keys[i][2][2], keys[i][2][3])]]
    ELSE <<>>

loadScaleKeys(channel) ==
    IF IsSet(channel.scalingkeys)
    THEN LET keys == channel.scalingkeys[1]
         IN  [i \in 1..Len(keys) |->
                [time |-> keys[i][1],
                 value |-> vec3fromValues(keys[i][2][1], keys[i][2][2], keys[i][2][3])]]
    ELSE <<>>

\* faulty variant: the source order [w, x, y, z] passed on unchanged
loadRotationKeys_unpermuted(channel) ==
    IF IsSet(channel.rotationkeys)
    THEN LET keys == channel.rotationkeys[1]
         IN  [i \in 1..Len(keys) |->
                [time |-> keys[i][1],
                 value |-> quatFromValues(keys[i][2][1], keys[i][2][2], keys[i][2][3], keys[i][2][4])]]
    ELSE <<>>

\* key[1][0..3] of the source is keys[i][2][1..4] here
loadRotationKeys(channel) ==
    IF IsSet(channel.rotationkeys)
    THEN LET keys == channel.rotationkeys[1]
         IN  [i \in 1..Len(keys) |->
                [time |-> keys[i][1],
                 value |-> quatFromValues(keys[i][2][2], keys[i][2][3], keys[i][2][4], keys[i][2][1])]]
    ELSE <<>>

loadNodeAnimations(animation) ==
    IF IsSet(animation.channels)
    THEN LET channels == animation.channels[1]
         IN  [i \in 1..Len(channels) |->
                [name |-> channels[i].name,
                 positionKeys |-> loadPositionKeys(channels[i]),
                 scaleKeys |-> loadScaleKeys(channels[i]),
                 rotationKeys |-> loadRotationKeys(channels[i])]]
    ELSE <<>>

\* the constructor's loop: nodeAnimationMap.set(nodeAnimation.name, nodeAnimation);
\* the stored reference to nodeAnimations[i] is the position i
RECURSIVE buildNodeAnimationMap(_, _, _)
buildNodeAnimationMap(nodeAnimations, i, m) ==
    IF i > Len(nodeAnimations) THEN m
    ELSE buildNodeAnimationMap(nodeAnimations, i + 1, MapSet(m, nodeAnimations[i].name, i))

\* new AssimpSceneAnimation(name, durationInTicks, ticksPerSecond, nodeAnimations)
AssimpSceneAnimation(name, durationInTicks, ticksPerSecond, nodeAnimations) ==
    [name |-> name,
     durationInTicks |-> durationInTicks,
     ticksPerSecond |-> ticksPerSecond,
     nodeAnimations |-> nodeAnimations,
     nodeAnimationMap |-> buildNodeAnimationMap(nodeAnimations, 1, <<>>)]

\* faulty variant: the lookup ignores the name and answers with the first entry
getNodeAnimation_firstEntry(this, name) ==
    IF Len(this.nodeAnimationMap) > 0 THEN Some(this.nodeAnimationMap[1].value) ELSE None

\* this.nodeAnimationMap.get(name) || null: None is null, Some(i) is the object nodeAnimations[i]
getNodeAnimation(this, name) == MapGet(this.nodeAnimationMap, name)

loadSceneAnimations(json) ==
    IF IsSet(json.animations)
    THEN LET animations == json.animations[1]
         IN  [i \in 1..Len(animations) |->
                AssimpSceneAnimation(animations[i].name,
                                     animations[i].duration,
                                     animations[i].tickspersecond,
                                     loadNodeAnimations(animations[i]))]
    ELSE <<>>

----------------------------------------------------------------------------
(* Materials *)

\* matProperties.find(prop => prop.key === key)?.value: the first hit's value, or undefined
findValue(matProperties, key) ==
    LET hits == {i \in 1..Len(matProperties) : matProperties[i].key = key}
    IN  IF hits = {} THEN None
        ELSE Some(matProperties[CHOOSE i \in hits : \A j \in hits : i <= j].value)

\* a ?? b
Coalesce(a, b) == IF IsSet(a) THEN a[1] ELSE b

\* faulty variant: roughness read under the metallic key
loadMaterial_sharedKey(material) ==
    LET matProperties == material.properties
        matDiffuse == Coalesce(findValue(matProperties, "$clr.diffuse"), <<1, 1, 1, 1>>)
        matMetallic == Coalesce(findValue(matProperties, "$mat.metallicFactor"), 0)
        matRoughness == Coalesce(findValue(matProperties, "$mat.metallicFactor"), 0)
    IN  [name |-> "Material",
         albedo |-> vec3fromValues(matDiffuse[1], matDiffuse[2], matDiffuse[3]),
         metallic |-> matMetallic,
         roughness |-> matRoughness]

\* the body of the loop of loadSceneMaterials
loadMaterial(material) ==
    LET matProperties == material.properties
        matDiffuse == Coalesce(findValue(matProperties, "$clr.diffuse"), <<1, 1, 1, 1>>)
        matMetallic == Coalesce(findValue(matProperties, "$mat.metallicFactor"), 0)
        matRoughness == Coalesce(findValue(matProperties, "$mat.roughnessFactor"), 0)
    IN  [name |-> "Material",
         albedo |-> vec3fromValues(matDiffuse[1], matDiffuse[2], matDiffuse[3]),
         metallic |-> matMetallic,
         roughness |-> matRoughness]

loadSceneMaterials(json) ==
    IF IsSet(json.materials)
    THEN [i \in 1..Len(json.materials[1]) |-> loadMaterial(json.materials[1][i])]
    ELSE <<>>

----------------------------------------------------------------------------
(* Meshes *)

\* the loop runs while i < mesh.vertices.length / 3
getMeshVertices(mesh) ==
    [k \in 1..((Len(mesh.vertices) + 2) \div 3) |->
        [position |-> vec3fromValues(mesh.vertices[3 * k - 2], mesh.vertices[3 * k - 1], mesh.vertices[3 * k]),
         normal |-> vec3fromValues(mesh.normals[3 * k - 2], mesh.normals[3 * k - 1], mesh.normals[3 * k]),
         color |-> vec3fromValues(1, 1, 1)]]

\* faulty variant: the faces concatenated last to first
RECURSIVE flat_reversed(_)
flat_reversed(faces) ==
    IF Len(faces) = 0 THEN <<>> ELSE flat_reversed(Tail(faces)) \o Head(faces)

\* Array.prototype.flat() on an array of index arrays
RECURSIVE flat(_)
flat(faces) ==
    IF Len(faces) = 0 THEN <<>> ELSE Head(faces) \o flat(Tail(faces))

loadSceneMeshes(json) ==
    IF IsSet(json.meshes)
    THEN LET meshes == json.meshes[1]
         IN  [i \in 1..Len(meshes) |->
                [name |-> meshes[i].name,
                 vertices |-> getMeshVertices(meshes[i]),
                 indices |-> flat(meshes[i].faces)]]
    ELSE <<>>

----------------------------------------------------------------------------
(* Lights *)

\* faulty variant: the default case falls back to a known type instead of throwing
getLightType_lenient(type) ==
    CASE type = 1 -> [threw |-> FALSE, value |-> "Directional"]
      [] type = 2 -> [threw |-> FALSE, value |-> "Point"]
      [] OTHER    -> [threw |-> FALSE, value |-> "Spot"]

\* returns the SceneLightType, or throws
getLightType(type) ==
    CASE type = 1 -> [threw |-> FALSE, value |-> "Directional"]
      [] type = 2 -> [threw |-> FALSE, value |-> "Point"]
      [] type = 3 -> [threw |-> FALSE, value |-> "Spot"]
      [] OTHER    -> [threw |-> TRUE, error |-> UnknownLightTypeError(type)]

\* the for loop of loadSceneLights from light i on, acc being the lights yielded so far;
\* a throw of getLightType ends the loop and the spread that drives it
RECURSIVE loadSceneLightsFrom(_, _, _)
loadSceneLightsFrom(lights, i, acc) ==
    IF i > Len(lights) THEN [threw |-> FALSE, value |-> acc]
    ELSE LET light == lights[i]
             type == getLightType(light.type)
         IN  IF type.threw THEN type
             ELSE loadSceneLightsFrom(lights, i + 1, Append(acc,
                    [name |-> light.name,
                     type |-> type.value,
                     color |-> vec3fromValues(light.diffusecolor[1], light.diffusecolor[2], light.diffusecolor[3]),
                     intensity |-> light.attenuationconstant,
                     innerConeAngle |-> Coalesce(light.angleinnercone, 0),
                     outerConeAngle |-> Coalesce(light.angleoutercone, 0),
                     range |-> light.attenuationlinear,
                     falloff |-> light.attenuationquadratic]))

loadSceneLights(json) ==
    IF IsSet(json.lights)
    THEN loadSceneLightsFrom(json.lights[1], 1, <<>>)
    ELSE [threw |-> FALSE, value |-> <<>>]

----------------------------------------------------------------------------
(* Cameras.  rotationMatrix is the mat3 handed to quat.fromMat3; the       *)
(* quaternion computed from it is not modelled.                            *)

loadSceneCameras(json) ==
    IF IsSet(json.cameras)
    THEN LET cameras == json.cameras[1]
         IN  [i \in 1..Len(cameras) |->
                LET up == vec3fromValues(cameras[i].up[1], cameras[i].up[2], cameras[i].up[3])
                    lookAt == vec3fromValues(cameras[i].lookat[1], cameras[i].lookat[2], cameras[i].lookat[3])
                    right == vec3cross(up, lookAt)
                IN  [name |-> cameras[i].name,
                     nearClipPlane |-> cameras[i].clipplanenear,
                     farClipPlane |-> cameras[i].clipplanefar,
                     horizontalFov |-> cameras[i].horizontalfov,
                     rotationMatrix |-> mat3fromValues(<<right[1], up[1], lookAt[1],
                                                         right[2], up[2], lookAt[2],
                                                         right[3], up[3], lookAt[3]>>)]]
    ELSE <<>>

----------------------------------------------------------------------------
(* Nodes *)

\* faulty variant: the 16 elements copied in the source's order
nodeTransform_copied(transform) == mat4fromValues(transform)

\* mat4.fromValues(transform[0], transform[4], transform[8], transform[12], transform[1], ...)
nodeTransform(transform) ==
    mat4fromValues(<<transform[1], transform[5], transform[9],  transform[13],
                     transform[2], transform[6], transform[10], transform[14],
                     transform[3], transform[7], transform[11], transform[15],
                     transform[4], transform[8], transform[12], transform[16]>>)

\* faulty variant: the mesh index stored as the material index
nodeMesh_ownIndex(mesh, json) == [meshIndex |-> mesh, materialIndex |-> mesh]

\* { meshIndex: mesh, materialIndex: json.meshes[mesh].materialindex }
nodeMesh(mesh, json) ==
    [meshIndex |-> mesh, materialIndex |-> json.meshes[1][mesh + 1].materialindex]

RECURSIVE loadSceneNode(_, _)
loadSceneNode(nodeJson, json) ==
    [name |-> nodeJson.name,
     transform |-> nodeTransform(nodeJson.transformation),
     meshes |-> IF IsSet(nodeJson.meshes)
                THEN [k \in 1..Len(nodeJson.meshes[1]) |-> nodeMesh(nodeJson.meshes[1][k], json)]
                ELSE <<>>,
     children |-> IF IsSet(nodeJson.children)
                  THEN [k \in 1..Len(nodeJson.children[1]) |-> loadSceneNode(nodeJson.children[1][k], json)]
                  ELSE <<>>]

----------------------------------------------------------------------------
(* The importer *)

\* faulty variant: every registration appended, an earlier one of the path kept
pushFile_appending(fs, path, data) == Append(fs, [key |-> path, value |-> data])

\* this.files.set(path, data)
pushFile(fs, path, data) == MapSet(fs, path, data)

\* faulty variant: the zero-output-files case not checked
getAssimpJson_unchecked(fs, assimp) ==
    IF ~IsSet(assimp)
    THEN [threw |-> TRUE, error |-> TypeError, fileList |-> None, result |-> None]
    ELSE LET list == [i \in 1..Len(fs) |-> [path |-> fs[i].key, content |-> fs[i].value]]
             res == assimp[1]
         IN  IF ~res.success
             THEN [threw |-> TRUE, error |-> ConversionError(res.errorCode),
                   fileList |-> Some(list), result |-> Some(res)]
             ELSE [threw |-> FALSE, json |-> res.file0,
                   fileList |-> Some(list), result |-> Some(res)]

\* fileList: the (path, new Uint8Array(data)) pairs added to the FileList, in the Map's
\* order (the Uint8Array is a view of the registered buffer, the same bytes);
\* res: what ConvertFileList(fileList, "assjson") answers; file0: the JSON document
\* decoded and parsed from result.GetFile(0)
getAssimpJson(fs, assimp) ==
    IF ~IsSet(assimp)
    THEN [threw |-> TRUE, error |-> TypeError, fileList |-> None, result |-> None]
    ELSE LET list == [i \in 1..Len(fs) |-> [path |-> fs[i].key, content |-> fs[i].value]]
             res == assimp[1]
         IN  IF ~res.success \/ res.fileCount = 0
             THEN [threw |-> TRUE, error |-> ConversionError(res.errorCode),
                   fileList |-> Some(list), result |-> Some(res)]
             ELSE [threw |-> FALSE, json |-> res.file0,
                   fileList |-> Some(list), result |-> Some(res)]

\* the rest of loadScene once the document is there
buildScene(json) ==
    LET rootNode == loadSceneNode(json.rootnode, json)
        cameras == loadSceneCameras(json)
        lights == loadSceneLights(json)
    IN  IF lights.threw THEN lights.error
        ELSE [kind |-> "scene",
              scene |-> [rootNode |-> rootNode,
                         cameras |-> cameras,
                         lights |-> lights.value,
                         meshes |-> loadSceneMeshes(json),
                         materials |-> loadSceneMaterials(json),
                         animations |-> loadSceneAnimations(json)]]

\* faulty variant: the registered files dropped once they have been submitted
loadScene_consuming(fs, assimp) ==
    LET got == getAssimpJson(fs, assimp)
    IN  [files |-> IF IsSet(got.fileList) THEN <<>> ELSE fs,
         fileList |-> got.fileList,
         result |-> got.result,
         returned |-> IF got.threw THEN got.error ELSE buildScene(got.json)]

\* loadScene(): the Map after the call, the list submitted, the parser's result,
\* and the value returned or the error thrown
loadScene(fs, assimp) ==
    LET got == getAssimpJson(fs, assimp)
    IN  [files |-> fs,
         fileList |-> got.fileList,
         result |-> got.result,
         returned |-> IF got.threw THEN got.error ELSE buildScene(got.json)]

----------------------------------------------------------------------------
(* Bounds of the explored inputs *)

MaxCalls == 3       \* pushFile calls on one importer
MaxDepth == 2       \* depth of the node hierarchy below the root
MaxLights == 2      \* lights of a document
MaxLightType == 5   \* light type codes 0..MaxLightType
MaxFaces == 2       \* faces of a mesh
MaxChannels == 3    \* channels of an animation
MaxKeys == 2        \* rotation keys of a channel
MaxFileCount == 2   \* output files a successful parser run reports

----------------------------------------------------------------------------
(* Source documents (the assjson output of the parser) *)

\* an integer that single precision cannot hold: it is stored as 2^24
Big == 2 ^ 24 + 1

Names == {"Arm", "Leg", "Head"}

MatSeq == [i \in 1..16 |-> i]
MatTranslate == [i \in 1..16 |-> IF i \in {1, 6, 11, 16} THEN 1 ELSE IF i = 4 THEN 7 ELSE 0]
MatBig == [i \in 1..16 |-> IF i \in {1, 6, 11, 16} THEN 1 ELSE IF i = 8 THEN Big ELSE 0]

NodeJson(name, transformation, meshes, children) ==
    [name |-> name, transformation |-> transformation, meshes |-> meshes, children |-> children]

\* name, transformation and mesh references of a node
NodeBodies ==
    {<<"Arm", MatSeq, None>>, <<"Leg", MatTranslate, Some(<<1, 0>>)>>, <<"Arm", MatBig, Some(<<0>>)>>}

LeafNode == NodeJson("Head", MatSeq, Some(<<1>>), None)

RECURSIVE Trees(_)
Trees(d) ==
    IF d = 0
    THEN {NodeJson(b[1], b[2], b[3], None) : b \in NodeBodies}
    ELSE Trees(d - 1)
         \cup {NodeJson(b[1], b[2], b[3], Some(<<c>>)) : b \in NodeBodies, c \in Trees(d - 1)}
         \cup {NodeJson(b[1], b[2], b[3], Some(<<c, LeafNode>>)) : b \in NodeBodies, c \in Trees(d - 1)}

MeshJson(materialindex, faces) ==
    [name |-> "Cube",
     materialindex |-> materialindex,
     vertices |-> <<0, 0, 0, 1, 0, 0, 0, Big, 0, 1, 1, 0>>,
     normals |-> <<0, 0, 1, 0, 0, 1, 0, 0, 1, 0, 0, 1>>,
     faces |-> faces]

Faces == {<<0, 1, 2>>, <<2, 3, 0>>, <<0, 1>>, <<3, 2, 1, 0>>}
FaceLists == SeqUpTo(Faces, MaxFaces)
Triangles == << <<0, 1, 2>>, <<2, 3, 0>> >>

\* mesh catalogs of two meshes, for the documents whose nodes refer to meshes 0 and 1
Catalogs ==
    {<<MeshJson(1, Triangles), MeshJson(0, Triangles)>>,
     <<MeshJson(0, Triangles), MeshJson(2, Triangles)>>}

MeshCatalogs ==
    {<<MeshJson(0, f)>> : f \in FaceLists}
    \cup {<<MeshJson(0, Triangles), MeshJson(1, f)>> : f \in FaceLists}

Property(key, value) == [key |-> key, value |-> value]

DiffuseChoices == {None, Some(<<2, 3, 4, 5>>), Some(<<Big, 0, 1, 1>>)}
MetallicChoices == {None, Some(0), Some(7)}
RoughnessChoices == {None, Some(0), Some(9)}

Keyed(key, choice) == IF IsSet(choice) THEN <<Property(key, choice[1])>> ELSE <<>>

MaterialJson(d, m, r) ==
    [properties |-> <<Property("?mat.name", "Mat")>>
                    \o Keyed("$mat.roughnessFactor", r)
                    \o Keyed("$clr.diffuse", d)
                    \o Keyed("$mat.metallicFactor", m)]

Materials == {MaterialJson(d, m, r) : d \in DiffuseChoices, m \in MetallicChoices, r \in RoughnessChoices}

PlainMaterial == MaterialJson(None, None, None)

MaterialLists == {<<m>> : m \in Materials} \cup {<<PlainMaterial, m>> : m \in Materials}

LightJson(type) ==
    [name |-> "Lamp",
     type |-> type,
     diffusecolor |-> <<1, 2, 3>>,
     attenuationconstant |-> 1,
     angleinnercone |-> IF type = 3 THEN Some(4) ELSE None,
     angleoutercone |-> IF type = 3 THEN Some(5) ELSE None,
     attenuationlinear |-> 2,
     attenuationquadratic |-> 3]

LightLists == SeqUpTo({LightJson(t) : t \in 0..MaxLightType}, MaxLights)

CameraJson ==
    [name |-> "Camera", clipplanefar |-> 100, clipplanenear |-> 1, horizontalfov |-> 1,
     up |-> <<0, 1, 0>>, lookat |-> <<0, 0, 1>>]

RotationKeys == {<<0, <<1, 2, 3, 4>>>>, <<5, <<4, 3, 2, 1>>>>, <<9, <<Big, 0, 0, 1>>>>}

ChannelJson(name, time, rotationkeys) ==
    [name |-> name,
     positionkeys |-> Some(<< <<time, <<1, 2, 3>>>> >>),
     scalingkeys |-> IF time = 1 THEN None ELSE Some(<< <<time, <<1, 1, 1>>>> >>),
     rotationkeys |-> rotationkeys]

AnimationJson(channels) ==
    [name |-> "Walk", duration |-> 10, tickspersecond |-> 25, channels |-> channels]

\* channel lists by name; the k-th channel's keys carry the time k, so records of one name differ
NamedChannelLists ==
    {[k \in 1..Len(ns) |-> ChannelJson(ns[k], k, Some(<< <<k, <<1, 0, 0, 0>>>> >>))] :
        ns \in SeqUpTo(Names, MaxChannels)}

\* one channel with every choice of rotation keys
KeyedChannelLists ==
    {<<ChannelJson("Arm", 0, None)>>}
    \cup {<<ChannelJson("Arm", 0, Some(ks))>> : ks \in SeqUpTo(RotationKeys, MaxKeys)}

AnimationLists ==
    {<<AnimationJson(None)>>}
    \cup {<<AnimationJson(Some(cs))>> : cs \in NamedChannelLists \cup KeyedChannelLists}
    \cup {<<AnimationJson(Some(<<ChannelJson("Leg", 0, None)>>)), AnimationJson(Some(cs))>> :
            cs \in KeyedChannelLists}

Document(rootnode, cameras, lights, meshes, materials, animations) ==
    [rootnode |-> rootnode, cameras |-> cameras, lights |-> lights,
     meshes |-> meshes, materials |-> materials, animations |-> animations]

BareRoot == NodeJson("Root", MatSeq, None, None)

\* a document with nothing but a root node
BareDocument == Document(BareRoot, None, None, None, None, None)

\* the single-cube end-to-end document: one mesh, one material, the root refers to mesh 0
BoxDocument ==
    Document(NodeJson("Root", MatTranslate, Some(<<0>>), None), None, None,
             Some(<<MeshJson(0, Triangles)>>), Some(<<PlainMaterial>>), None)

\* a document with every collection filled
RichDocument(lights) ==
    Document(NodeJson("Root", MatTranslate, Some(<<0>>), Some(<<LeafNode>>)),
             Some(<<CameraJson>>), lights,
             Some(<<MeshJson(1, Triangles), MeshJson(0, Triangles)>>),
             Some(<<PlainMaterial, MaterialJson(Some(<<2, 3, 4, 5>>), Some(7), None)>>),
             Some(<<AnimationJson(Some(<<ChannelJson("Arm", 0, Some(<< <<0, <<1, 2, 3, 4>>>> >>))>>))>>))

NodeDocuments ==
    {Document(t, None, None, Some(c), Some(<<PlainMaterial, PlainMaterial, PlainMaterial>>), None) :
        t \in Trees(MaxDepth), c \in Catalogs}

MeshDocuments == {Document(BareRoot, None, None, Some(c), None, None) : c \in MeshCatalogs}

MaterialDocuments == {Document(BareRoot, None, None, None, Some(ms), None) : ms \in MaterialLists}

LightDocuments ==
    {Document(BareRoot, None, Some(ls), None, None, None) : ls \in LightLists}
    \cup {RichDocument(Some(ls)) : ls \in LightLists}
    \cup {RichDocument(None)}

AnimationDocuments == {Document(BareRoot, None, None, None, None, Some(as)) : as \in AnimationLists}

Documents ==
    {BareDocument, BoxDocument}
    \cup NodeDocuments \cup MeshDocuments \cup MaterialDocuments
    \cup LightDocuments \cup AnimationDocuments

----------------------------------------------------------------------------
(* The external parser's answers to ConvertFileList: IsSuccess(),          *)
(* FileCount(), GetErrorCode() and the document in GetFile(0).             *)

Answer(success, fileCount, errorCode, file0) ==
    [success |-> success, fileCount |-> fileCount, errorCode |-> errorCode, file0 |-> file0]

ErrorCodes == {"import_error", "no_result"}

\* the answers explored with the importer's life cycle
Answers ==
    {Answer(FALSE, n, c, BareDocument) : n \in 0..1, c \in ErrorCodes}
    \cup {Answer(TRUE, 0, c, BareDocument) : c \in ErrorCodes}
    \cup {Answer(TRUE, 1, "", d) : d \in {BoxDocument, RichDocument(Some(<<LightJson(2), LightJson(4)>>))}}

\* the successful answers explored with the conversion
ConvertAnswers == {Answer(TRUE, n, "", d) : n \in 1..MaxFileCount, d \in Documents}

Paths == {"box.gltf", "box.bin"}
Buffers == {"bytes1", "bytes2"}

----------------------------------------------------------------------------
(* The importer's life cycle *)

NotCalled == [kind |-> "none"]

\* new AssimpImport(): no parser loaded, no file registered
Init ==
    /\ assimpJs = None
    /\ files = <<>>
    /\ calls = <<>>
    /\ fileList = None
    /\ result = None
    /\ returned = NotCalled
    /\ lookup = None

\* loadAssimp(): this.assimpJs = await assimp(). The parser is a function of the
\* files it is given; what is kept of it is its answer for the files registered now.
LoadAssimp ==
    /\ \E a \in Answers : assimpJs' = Some(a)
    /\ UNCHANGED <<files, calls, fileList, result, returned, lookup>>

\* pushFile(path, data). With other files the loaded parser has another answer.
PushFile ==
    /\ Len(calls) < MaxCalls
    /\ \E path \in Paths, data \in Buffers :
          /\ files' = pushFile(files, path, data)
          /\ calls' = Append(calls, [path |-> path, data |-> data])
    /\ IF IsSet(assimpJs) THEN \E a \in Answers : assimpJs' = Some(a) ELSE assimpJs' = assimpJs
    /\ UNCHANGED <<fileList, result, returned, lookup>>

\* loadScene()
LoadScene ==
    /\ LET done == loadScene(files, assimpJs)
       IN  /\ files' = done.files
           /\ fileList' = done.fileList
           /\ result' = done.result
           /\ returned' = done.returned
    /\ lookup' = None
    /\ UNCHANGED <<assimpJs, calls>>

\* scene.animations[a].getNodeAnimation(name) on the scene loadScene() returned
GetNodeAnimation ==
    /\ returned.kind = "scene"
    /\ \E a \in 1..Len(returned.scene.animations), name \in Names :
          lookup' = Some([animation |-> a, name |-> name,
                          found |-> getNodeAnimation(returned.scene.animations[a], name)])
    /\ UNCHANGED <<assimpJs, files, calls, fileList, result, returned>>

Next == LoadAssimp \/ PushFile \/ LoadScene

Spec == Init /\ [][Next]_vars

\* The conversion on its own: an importer with the parser loaded and one file
\* registered, the parser answering with any of the documents.
InitConvert ==
    /\ \E a \in ConvertAnswers : assimpJs = Some(a)
    /\ files = <<[key |-> "box.gltf", value |-> "bytes1"]>>
    /\ calls = <<[path |-> "box.gltf", data |-> "bytes1"]>>
    /\ fileList = None
    /\ result = None
    /\ returned = NotCalled
    /\ lookup = None

NextConvert == LoadScene \/ GetNodeAnimation

SpecConvert == InitConvert /\ [][NextConvert]_vars

----------------------------------------------------------------------------
(* What the claims speak about *)

\* the last loadScene() got a document from the parser
Parsed == IsSet(result) /\ result[1].success /\ result[1].fileCount >= 1

\* that document
Json == result[1].file0

Listed(o) == IF IsSet(o) THEN o[1] ELSE <<>>

\* a source node with the node produced for it, and the same for the children
\* position by position, at every depth
RECURSIVE NodePairs(_, _, _)
NodePairs(src, dst, depth) ==
    {[src |-> src, dst |-> dst, depth |-> depth]}
    \cup UNION {NodePairs(Listed(src.children)[k], dst.children[k], depth + 1) :
                  k \in 1..MinOf(Len(Listed(src.children)), Len(dst.children))}

\* the produced tree has a node for every source node and no other
RECURSIVE SameShape(_, _)
SameShape(src, dst) ==
    /\ Len(dst.children) = Len(Listed(src.children))
    /\ \A k \in 1..Len(dst.children) : SameShape(Listed(src.children)[k], dst.children[k])

ScenePairs == NodePairs(Json.rootnode, returned.scene.rootNode, 0)

\* x is a single-precision value
Representable(x) == Float32(x) = x

----------------------------------------------------------------------------
\* C1: whenever the parser reports failure or zero output files, loadScene throws
\* the conversion error carrying the parser's error code and returns no scene; a
\* scene is returned only after the parser reported success with at least one
\* output file.
C1_ConversionError ==
    /\ IsSet(result) =>
          ((~result[1].success \/ result[1].fileCount = 0) =>
              /\ returned.kind = "throw"
              /\ returned.message = "Assimp failed to convert files! Error code: "
              /\ returned.errorCode = result[1].errorCode)
    /\ returned.kind = "scene" =>
          (IsSet(result) /\ result[1].success /\ result[1].fileCount >= 1)

\* the parser reported success with zero output files and loadScene threw with its code
C1_Witness ==
    /\ IsSet(result)
    /\ result[1].success
    /\ result[1].fileCount = 0
    /\ returned.kind = "throw"
    /\ returned.message = "Assimp failed to convert files! Error code: "
    /\ returned.errorCode = "no_result"

----------------------------------------------------------------------------
LightTypeOf(code) ==
    CASE code = 1 -> "Directional" [] code = 2 -> "Point" [] code = 3 -> "Spot" [] OTHER -> "none"

\* C2: type codes 1, 2, 3 map to Directional, Point, Spot; when any light of the
\* document has another type code, loadScene throws the unknown-light-type error
\* and returns no scene, whatever else the document holds.
C2_LightTypes ==
    Parsed =>
       LET lights == Listed(Json.lights)
       IN  IF \E i \in 1..Len(lights) : lights[i].type \notin {1, 2, 3}
           THEN /\ returned.kind = "throw"
                /\ returned.message = "Unknown light type: "
           ELSE /\ returned.kind = "scene"
                /\ Len(returned.scene.lights) = Len(lights)
                /\ \A i \in 1..Len(lights) :
                      returned.scene.lights[i].type = LightTypeOf(lights[i].type)

\* a document with meshes, materials and an animation, whose first light is a
\* point light and whose second light has type code 4: loadScene threw
C2_Witness ==
    /\ Parsed
    /\ IsSet(Json.meshes) /\ IsSet(Json.materials) /\ IsSet(Json.animations)
    /\ Len(Listed(Json.lights)) = 2
    /\ Json.lights[1][1].type = 2
    /\ Json.lights[1][2].type = 4
    /\ returned.kind = "throw"
    /\ returned.message = "Unknown light type: "

----------------------------------------------------------------------------
\* the buffer of the most recent pushFile call for the path
LastData(path) ==
    calls[CHOOSE k \in 1..Len(calls) :
             /\ calls[k].path = path
             /\ \A m \in 1..Len(calls) : calls[m].path = path => m <= k].data

\* C3: the file list loadScene submits holds exactly one entry per distinct path
\* registered so far, and that entry's buffer is the one of the most recent
\* registration of the path.
C3_LastWriteWins ==
    [][LoadScene =>
          (IsSet(fileList') =>
              LET list == fileList'[1]
              IN  /\ \A i, j \in 1..Len(list) : list[i].path = list[j].path => i = j
                  /\ {list[i].path : i \in 1..Len(list)} = {calls[k].path : k \in 1..Len(calls)}
                  /\ \A i \in 1..Len(list) : list[i].content = LastData(list[i].path))]_vars

\* three registrations, the third of the first one's path with another buffer, and
\* the list submitted after them: two entries, the first path with the third buffer
C3_Witness ==
    /\ Len(calls) = 3
    /\ calls[1].path = calls[3].path
    /\ calls[1].data # calls[3].data
    /\ calls[2].path # calls[1].path
    /\ IsSet(fileList)
    /\ Len(fileList[1]) = 2
    /\ fileList[1][1].path = calls[3].path
    /\ fileList[1][1].content = calls[3].data

----------------------------------------------------------------------------
\* C4, as claimed: every produced transform is the exact transpose of the source
\* transformation (destination element c*4+r equals source element r*4+c).
C4_ExactTranspose ==
    (Parsed /\ returned.kind = "scene") =>
       /\ SameShape(Json.rootnode, returned.scene.rootNode)
       /\ \A p \in ScenePairs : \A r \in 0..3, c \in 0..3 :
             p.dst.transform[c * 4 + r + 1] = p.src.transformation[r * 4 + c + 1]

\* C4, amended: every produced transform is the transpose of the source
\* transformation with each element rounded to single precision (destination
\* element c*4+r is the single-precision value of source element r*4+c); transposing
\* it back reproduces the source exactly when every source element is a
\* single-precision value.
C4_Float32Transpose ==
    (Parsed /\ returned.kind = "scene") =>
       /\ SameShape(Json.rootnode, returned.scene.rootNode)
       /\ \A p \in ScenePairs :
             /\ \A r \in 0..3, c \in 0..3 :
                   p.dst.transform[c * 4 + r + 1] = Float32(p.src.transformation[r * 4 + c + 1])
             /\ (\A i \in 1..16 : Representable(p.src.transformation[i])) =>
                   [i \in 1..16 |-> p.dst.transform[((i - 1) % 4) * 4 + ((i - 1) \div 4) + 1]]
                      = p.src.transformation

\* a node one level below the root whose source transformation is 1..16 in row
\* order (its transform starts 1, 5, 9, 13), and a node two levels below the root
\* whose source element r=1, c=3 is 2^24 + 1 (its transform holds 2^24 at 3*4+1)
C4_Witness ==
    /\ Parsed
    /\ returned.kind = "scene"
    /\ \E p \in ScenePairs :
          /\ p.depth = 1
          /\ p.src.transformation = MatSeq
          /\ p.dst.transform[2] = 5
          /\ p.dst.transform[4] = 13
          /\ p.dst.transform[13] = 4
    /\ \E p \in ScenePairs :
          /\ p.depth = 2
          /\ p.src.transformation[8] = Big
          /\ p.dst.transform[14] = 2 ^ 24

----------------------------------------------------------------------------
\* C5: every produced node lists one {meshIndex, materialIndex} entry per mesh
\* index of its source node, in the same order, the materialIndex being the
\* material index declared by the mesh at position meshIndex of the catalog.
C5_NodeMeshes ==
    (Parsed /\ returned.kind = "scene") =>
       /\ SameShape(Json.rootnode, returned.scene.rootNode)
       /\ \A p \in ScenePairs :
             LET refs == Listed(p.src.meshes)
             IN  /\ Len(p.dst.meshes) = Len(refs)
                 /\ \A k \in 1..Len(refs) :
                       /\ p.dst.meshes[k].meshIndex = refs[k]
                       /\ p.dst.meshes[k].materialIndex = Json.meshes[1][refs[k] + 1].materialindex

\* a node two levels below the root that refers to meshes 1 and 0, in a document
\* whose mesh 1 declares material 2 and mesh 0 material 0
C5_Witness ==
    /\ Parsed
    /\ returned.kind = "scene"
    /\ \E p \in ScenePairs :
          /\ p.depth = 2
          /\ Listed(p.src.meshes) = <<1, 0>>
          /\ p.dst.meshes = <<[meshIndex |-> 1, materialIndex |-> 2],
                              [meshIndex |-> 0, materialIndex |-> 0]>>

----------------------------------------------------------------------------
\* the number of indices in the faces before face f
RECURSIVE Offset(_, _)
Offset(faces, f) == IF f <= 1 THEN 0 ELSE Offset(faces, f - 1) + Len(faces[f - 1])

\* C6: the indices of every produced mesh are the source faces one after the other
\* in face order, each face's vertex order kept; with triangles only there are
\* three indices per face.
C6_FlatIndices ==
    (Parsed /\ returned.kind = "scene") =>
       LET meshes == Listed(Json.meshes)
       IN  /\ Len(returned.scene.meshes) = Len(meshes)
           /\ \A i \in 1..Len(meshes) :
                 LET faces == meshes[i].faces
                     indices == returned.scene.meshes[i].indices
                 IN  /\ Len(indices) = Offset(faces, Len(faces) + 1)
                     /\ \A f \in 1..Len(faces) : \A j \in 1..Len(faces[f]) :
                           indices[Offset(faces, f) + j] = faces[f][j]
                     /\ (\A f \in 1..Len(faces) : Len(faces[f]) = 3) =>
                           Len(indices) = 3 * Len(faces)

\* a mesh of the two triangles (2,3,0) and (0,1,2), in that order, produced the
\* six indices 2,3,0,0,1,2
C6_Witness ==
    /\ Parsed
    /\ returned.kind = "scene"
    /\ \E i \in 1..Len(Listed(Json.meshes)) :
          /\ Json.meshes[1][i].faces = << <<2, 3, 0>>, <<0, 1, 2>> >>
          /\ returned.scene.meshes[i].indices = <<2, 3, 0, 0, 1, 2>>

----------------------------------------------------------------------------
\* C7: getNodeAnimation(name) returns a record of the animation's nodeAnimations
\* (the object itself) whose name is the queried one when some record has that
\* name, and null when none has.
C7_Lookup ==
    IsSet(lookup) =>
       LET nodeAnimations == returned.scene.animations[lookup[1].animation].nodeAnimations
           name == lookup[1].name
           found == lookup[1].found
       IN  IF \E i \in 1..Len(nodeAnimations) : nodeAnimations[i].name = name
           THEN /\ IsSet(found)
                /\ found[1] \in 1..Len(nodeAnimations)
                /\ nodeAnimations[found[1]].name = name
           ELSE ~IsSet(found)

\* an animation with the node animations Arm and Leg, queried for Leg: the second
\* record was returned
C7_Witness ==
    /\ IsSet(lookup)
    /\ LET nodeAnimations == returned.scene.animations[lookup[1].animation].nodeAnimations
       IN  /\ Len(nodeAnimations) = 2
           /\ nodeAnimations[1].name = "Arm"
           /\ nodeAnimations[2].name = "Leg"
           /\ lookup[1].name = "Leg"
           /\ lookup[1].found = Some(2)

----------------------------------------------------------------------------
HasKey(properties, key) == \E p \in 1..Len(properties) : properties[p].key = key

\* the value of the first property with the key
KeyValue(properties, key) ==
    properties[CHOOSE p \in 1..Len(properties) :
                  /\ properties[p].key = key
                  /\ \A q \in 1..Len(properties) : properties[q].key = key => p <= q].value

\* C8: each of albedo, metallic and roughness comes from its own keyed property
\* when the material has it (the first three components for albedo) and is the
\* default (1,1,1), 0, 0 when it has not, whatever the other two properties are.
C8_MaterialDefaults ==
    (Parsed /\ returned.kind = "scene") =>
       LET materials == Listed(Json.materials)
       IN  /\ Len(returned.scene.materials) = Len(materials)
           /\ \A i \in 1..Len(materials) :
                 LET properties == materials[i].properties
                     material == returned.scene.materials[i]
                 IN  /\ material.albedo =
                           IF HasKey(properties, "$clr.diffuse")
                           THEN vec3fromValues(KeyValue(properties, "$clr.diffuse")[1],
                                               KeyValue(properties, "$clr.diffuse")[2],
                                               KeyValue(properties, "$clr.diffuse")[3])
                           ELSE <<1, 1, 1>>
                     /\ material.metallic =
                           IF HasKey(properties, "$mat.metallicFactor")
                           THEN KeyValue(properties, "$mat.metallicFactor")
                           ELSE 0
                     /\ material.roughness =
                           IF HasKey(properties, "$mat.roughnessFactor")
                           THEN KeyValue(properties, "$mat.roughnessFactor")
                           ELSE 0

\* a material with a metallic factor of 7 and neither a diffuse colour nor a
\* roughness factor: albedo (1,1,1), metallic 7, roughness 0
C8_Witness ==
    /\ Parsed
    /\ returned.kind = "scene"
    /\ \E i \in 1..Len(Listed(Json.materials)) :
          /\ ~HasKey(Json.materials[1][i].properties, "$clr.diffuse")
          /\ ~HasKey(Json.materials[1][i].properties, "$mat.roughnessFactor")
          /\ HasKey(Json.materials[1][i].properties, "$mat.metallicFactor")
          /\ returned.scene.materials[i].albedo = <<1, 1, 1>>
          /\ returned.scene.materials[i].metallic = 7
          /\ returned.scene.materials[i].roughness = 0

----------------------------------------------------------------------------
\* C9: every channel's rotationKeys has one key per source rotation key, in the
\* same order, the key for [t, [w, x, y, z]] having time t and the quaternion
\* built from (x, y, z, w).
C9_RotationKeys ==
    (Parsed /\ returned.kind = "scene") =>
       LET animations == Listed(Json.animations)
       IN  /\ Len(returned.scene.animations) = Len(animations)
           /\ \A a \in 1..Len(animations) :
                 LET channels == Listed(animations[a].channels)
                     nodeAnimations == returned.scene.animations[a].nodeAnimations
                 IN  /\ Len(nodeAnimations) = Len(channels)
                     /\ \A c \in 1..Len(channels) :
                           LET keys == Listed(channels[c].rotationkeys)
                               rotationKeys == nodeAnimations[c].rotationKeys
                           IN  /\ Len(rotationKeys) = Len(keys)
                               /\ \A k \in 1..Len(keys) :
                                     /\ rotationKeys[k].time = keys[k][1]
                                     /\ rotationKeys[k].value =
                                           quatFromValues(keys[k][2][2], keys[k][2][3],
                                                          keys[k][2][4], keys[k][2][1])

\* a channel with the rotation keys [0, [1,2,3,4]] and [5, [4,3,2,1]]: the keyed
\* values are (2,3,4,1) at time 0 and (3,2,1,4) at time 5
C9_Witness ==
    /\ Parsed
    /\ returned.kind = "scene"
    /\ \E a \in 1..Len(Listed(Json.animations)) :
          \E c \in 1..Len(Listed(Json.animations[1][a].channels)) :
             /\ Listed(Json.animations[1][a].channels[1][c].rotationkeys)
                   = << <<0, <<1, 2, 3, 4>>>>, <<5, <<4, 3, 2, 1>>>> >>
             /\ returned.scene.animations[a].nodeAnimations[c].rotationKeys
                   = <<[time |-> 0, value |-> <<2, 3, 4, 1>>],
                       [time |-> 5, value |-> <<3, 2, 1, 4>>]>>

----------------------------------------------------------------------------
\* C10: loadScene leaves the registered files as they are, whether it returns or
\* throws; the list it submits names every path registered since construction,
\* and a loadScene right after it, with no registration in between, submits the
\* same list.
C10_FilesKept ==
    [][LoadScene =>
          /\ files' = files
          /\ loadScene(files', assimpJs').fileList = fileList'
          /\ IsSet(fileList') =>
                {fileList'[1][i].path : i \in 1..Len(fileList'[1])}
                   = {calls[k].path : k \in 1..Len(calls)}]_vars

\* a failed loadScene that submitted two files, both still registered
C10_Witness ==
    /\ IsSet(fileList)
    /\ Len(fileList[1]) = 2
    /\ returned.kind = "throw"
    /\ Len(files) = 2
    /\ \A i \in 1..2 : fileList[1][i] = [path |-> files[i].key, content |-> files[i].value]

====
